---- MODULE Spec2Model ----
(***************************************************************************)
(* State-machine model of the two method scripts of dsImaging-HPC:         *)
(*   src/environment/methods/scripts/lungmask/main.py     (segmentation)    *)
(*   src/environment/methods/scripts/pyradiomics/main.py  (radiomics)       *)
(* One behaviour is one process invocation.  What the process observes of   *)
(* its environment (path status, file contents, library outcomes) is drawn  *)
(* from small sets at the step that observes it.  A KeyboardInterrupt may   *)
(* be delivered between any two steps of main.                              *)
(***************************************************************************)
EXTENDS Integers, Sequences, FiniteSets, TLC

\* ------------------------------------------------------------------ bounds
MaxInterrupts == 1    \* most KeyboardInterrupts delivered in one run
MaxDepth == 2         \* largest size of an image axis after the second
MaxDim == 3           \* largest image dimension tried (smallest is 2)
MaxFeatures == 3      \* most entries of a feature mapping the library returns
MaxSide == 2          \* largest width and height of a volume given to generate_mask

\* the number of arguments main needs: len(sys.argv) < 4
RequiredArgs == 3

\* --------------------------------------------------------------- text
\* Strings that the code lower-cases are sequences of characters.
Upper == <<"A","B","C","D","E","F","G","H","I","J","K","L","M",
           "N","O","P","Q","R","S","T","U","V","W","X","Y","Z">>
LowerTab == <<"a","b","c","d","e","f","g","h","i","j","k","l","m",
              "n","o","p","q","r","s","t","u","v","w","x","y","z">>

LowerChar(c) ==
    IF \E i \in 1..26 : Upper[i] = c
    THEN LowerTab[CHOOSE i \in 1..26 : Upper[i] = c]
    ELSE c

\* str.lower()
lower(s) == [i \in 1..Len(s) |-> LowerChar(s[i])]

s_true  == <<"t","r","u","e">>
s_TRUE  == <<"T","R","U","E">>
s_1     == <<"1">>
s_yes   == <<"y","e","s">>
s_false == <<"f","a","l","s","e">>
s_0     == <<"0">>
s_no    == <<"n","o">>
s_R231  == <<"R","2","3","1">>
s_LTRCLobes == <<"L","T","R","C","L","o","b","e","s">>
s_R231CovidWeb == <<"R","2","3","1","C","o","v","i","d","W","e","b">>
s_r231  == <<"r","2","3","1">>

\* ------------------------------------------------------------ JSON values
\* A parsed JSON scalar, tagged with its Python type; Absent is a missing key.
JBool(b) == [t |-> "bool", b |-> b,     s |-> <<>>, n |-> 0]
JStr(s)  == [t |-> "str",  b |-> FALSE, s |-> s,    n |-> 0]
JNum(n)  == [t |-> "int",  b |-> FALSE, s |-> <<>>, n |-> n]
JNull    == [t |-> "NoneType", b |-> FALSE, s |-> <<>>, n |-> 0]
Absent   == [t |-> "absent", b |-> FALSE, s |-> <<>>, n |-> 0]

\* dict.get(key, default)
Get(v, default) == IF v = Absent THEN default ELSE v

\* type(v).__name__
TypeName(v) == v.t

\* Python truthiness of a parsed value
Truthy(v) ==
    CASE v.t = "bool" -> v.b
      [] v.t = "str"  -> Len(v.s) > 0
      [] v.t = "int"  -> v.n # 0
      [] OTHER        -> FALSE

\* ------------------------------------------------------------ messages
\* A message is its fixed text, the thing it is about (a file description or
\* an option name) and the value interpolated into it (a diagnostic, a type).
Msg(text, about, arg) == [text |-> text, about |-> about, arg |-> arg, sizes |-> <<>>]
\* a message that cites two voxel-grid sizes
SizeMsg(text, a, b) == [text |-> text, about |-> "", arg |-> "", sizes |-> <<a, b>>]
NoMsg == Msg("", "", "")
JSONDiag == "JSONDecodeError"   \* str(e) of json.JSONDecodeError

Nothing == [nothing |-> TRUE]

ErrorEnvelope(msg) ==
    [status |-> "error", message |-> msg,
     keys |-> {"status", "message"},
     data |-> Nothing, metadata |-> Nothing, parameters_applied |-> Nothing]

UnexpectedEnvelope(excType) ==
    [status |-> "error", message |-> Msg("Unexpected error:", "", excType),
     keys |-> {"status", "message", "error_type", "traceback"},
     data |-> Nothing, metadata |-> Nothing, parameters_applied |-> Nothing]

\* a success envelope that echoes the parameters with the defaults filled in
SuccessEnvelopeDefaults(message, data, metadata, params) ==
    [status |-> "success", message |-> message,
     keys |-> {"status", "message", "data", "metadata", "parameters_applied"},
     data |-> data, metadata |-> metadata,
     parameters_applied |->
        IF params.kind # "dict" THEN params
        ELSE [params EXCEPT !.normalize = IF @.t = "absent" THEN [@ EXCEPT !.t = "bool"] ELSE @,
                            !.force_cpu = IF @.t = "absent" THEN [@ EXCEPT !.t = "bool"] ELSE @]]

\* result = {"status": "success", "message": ..., "data": ..., "metadata": ...,
\*           "parameters_applied": params}
SuccessEnvelope(message, data, metadata, params) ==
    [status |-> "success", message |-> message,
     keys |-> {"status", "message", "data", "metadata", "parameters_applied"},
     data |-> data, metadata |-> metadata,
     parameters_applied |-> params]

InterruptEnvelope == ErrorEnvelope(Msg("Process interrupted by user", "", ""))

UsageMsg == Msg("Usage: python3 main.py <input_file> <metadata_file> <params_file>", "", "")

\* ------------------------------------------------------------ file system
PathStatuses == {"empty", "missing", "notfile", "unreadable", "ok"}

validate_file_exists(st, file_description) ==
    CASE st = "empty"      -> [ok |-> FALSE, error |-> Msg("path is empty", file_description, "")]
      [] st = "missing"    -> [ok |-> FALSE, error |-> Msg("does not exist:", file_description, "")]
      [] st = "notfile"    -> [ok |-> FALSE, error |-> Msg("is not a file:", file_description, "")]
      [] st = "unreadable" -> [ok |-> FALSE, error |-> Msg("is not readable:", file_description, "")]
      [] OTHER             -> [ok |-> TRUE,  error |-> NoMsg]

\* Parsed content of a JSON file.  kind is the Python type of the top-level
\* value ("dict", "list", "NoneType", "int"), or how parsing failed.
Doc(kind) ==
    [kind |-> kind,
     model |-> Absent, force_cpu |-> Absent,
     mask_base64 |-> Absent, feature_classes |-> Absent, bin_width |-> Absent,
     normalize |-> Absent, normalize_scale |-> Absent,
     files |-> "absent", mask |-> "absent"]

EmptyDict == Doc("dict")
NoDoc == Doc("none")

\* load_json_file that takes an unparsable file for an empty object
load_json_file_lenient(content, file_description) ==
    IF content.kind \in {"malformed", "ioerror"}
    THEN [value |-> EmptyDict, error |-> NoMsg]
    ELSE [value |-> content, error |-> NoMsg]

load_json_file(content, file_description) ==
    CASE content.kind = "malformed" ->
            [value |-> NoDoc, error |-> Msg("Invalid JSON in", file_description, JSONDiag)]
      [] content.kind = "ioerror" ->
            [value |-> NoDoc, error |-> Msg("Error reading", file_description, "OSError")]
      [] OTHER ->
            [value |-> content, error |-> NoMsg]

\* ------------------------------------------------------------ images
\* A volume as SimpleITK reports it: GetSize() and where its spacing, origin
\* and direction come from.  GetDimension() is the length of the size.
Img(sz, geo) == [ok |-> TRUE, size |-> sz, geo |-> geo]
NoImage == [ok |-> FALSE, size |-> <<>>, geo |-> ""]
GetDimension(img) == Len(img.size)

\* The first two axes are empty or not (all the code looks at); the axes
\* after them share one size.
Sizes ==
    {[i \in 1..d |-> IF i = 1 THEN a ELSE IF i = 2 THEN b ELSE t] :
        d \in 2..MaxDim, a \in 0..1, b \in 0..1, t \in 1..MaxDepth}

\* dimension 3 and a non-empty first and second axis
IsVolume3D(img) ==
    /\ img.ok
    /\ GetDimension(img) = 3
    /\ img.size[1] > 0 /\ img.size[2] > 0

\* What sitk.ReadImage can give for a readable file: an exception or a volume.
ReadOutcomes == {NoImage} \cup {Img(sz, "file") : sz \in Sizes}

\* lungmask read_image_file, after the path was validated
read_image_file_lm(st, r) ==
    LET v == validate_file_exists(st, "Input image") IN
    IF ~v.ok THEN [image |-> NoImage, error |-> v.error]
    ELSE IF ~r.ok THEN [image |-> NoImage, error |-> Msg("Failed to read image file", "", "")]
    ELSE IF r.size[1] = 0 \/ r.size[2] = 0
         THEN [image |-> NoImage, error |-> Msg("Image appears to be empty", "", "")]
    ELSE IF GetDimension(r) # 3
         THEN [image |-> NoImage, error |-> Msg("Expected 3D image, but got", "", "")]
    ELSE [image |-> r, error |-> NoMsg]

\* ------------------------------------------------------------ environment
\* Value of an environment variable: unset, or set to a string.
EnvUnset == [set |-> FALSE, val |-> ""]
EnvVal(v) == [set |-> TRUE, val |-> v]
CudaEnvs == {EnvUnset, EnvVal(""), EnvVal("0")}

\* a restore that tests 'if original_cuda:' and so drops an empty value
RestoreCudaTruthy(original_cuda) ==
    IF original_cuda.set /\ original_cuda.val # "" THEN EnvVal(original_cuda.val) ELSE EnvUnset

\* the finally block of apply_lungmask: put CUDA_VISIBLE_DEVICES back
RestoreCuda(original_cuda) ==
    IF original_cuda.set THEN EnvVal(original_cuda.val) ELSE EnvUnset

\* Exit status of an interpreter that dies of an uncaught KeyboardInterrupt:
\* 1 (traceback) or 130 (killed by SIGINT), depending on the Python version.
UncaughtInterruptExit == {1, 130}

\* ------------------------------------------------------------ inputs
Methods == {"lungmask", "pyradiomics"}

ModelInputs == {Absent, JStr(s_R231CovidWeb), JStr(s_r231), JNum(231)}

BoolInputs ==
    {Absent, JBool(TRUE), JBool(FALSE), JNum(1), JNull,
     JStr(s_true), JStr(s_TRUE), JStr(s_1), JStr(s_yes),
     JStr(s_false), JStr(s_0), JStr(s_no)}

valid_models == {s_R231, s_LTRCLobes, s_R231CovidWeb}

LmParamsDicts ==
    {[EmptyDict EXCEPT !.model = m, !.force_cpu = f] : m \in ModelInputs, f \in BoolInputs}

UnparsedDocs == {Doc("malformed"), Doc("ioerror")}
NonDictDocs == {Doc("list"), Doc("NoneType")}

LmMetadataFiles == UnparsedDocs \cup NonDictDocs \cup {EmptyDict}

\* Results of LMInferer(...).apply(image): an exception, or a value of some
\* type: a numpy array with its shape (z, y, x), or an image with its size
\* (x, y, z).
LibMask(type, sz) == [type |-> type, size |-> sz]
Grow(sz) == [sz EXCEPT ![Len(sz)] = sz[Len(sz)] + 1]
Reverse(sq) == [i \in 1..Len(sq) |-> sq[Len(sq) + 1 - i]]
LibOutcomes(img) ==
    {LibMask(t, <<>>) : t \in {"RuntimeError_CUDA", "RuntimeError", "Exception", "None", "str"}}
    \cup {LibMask("sitk", sz) : sz \in {img.size, Grow(img.size)}}
    \cup {LibMask("ndarray", Reverse(sz)) : sz \in {img.size, Grow(img.size)}}

\* the mask as an image: sitk.GetImageFromArray turns an array of shape
\* (z, y, x) into an image of size (x, y, z) with default geometry
MaskImage(o) ==
    IF o.type = "ndarray" THEN Img(Reverse(o.size), "default") ELSE Img(o.size, "library")

\* mask.SetSpacing(image_spacing), SetOrigin, SetDirection
SetGeometry(mask, img) == [mask EXCEPT !.geo = img.geo]

\* What the library writes to sys.stdout during a call: nothing or some text
LibraryPrints == {{}, {"library output"}}

\* Sizes in bytes of the mask file written by sitk.WriteImage
MaskFileSizes == {1024, 37449142, 37449143, 39321601}
max_size_bytes == 50 * 1024 * 1024

\* len(base64.b64encode(n bytes))
b64len(n) == 4 * ((n + 2) \div 3)

\* a size test that compares the raw size with the ceiling
fits_inline_raw(mask_size_bytes) == mask_size_bytes < max_size_bytes

\* mask_size_bytes * 1.4 < max_size_bytes
fits_inline(mask_size_bytes) == mask_size_bytes * 14 < max_size_bytes * 10

\* ------------------------------------------------------------ state
VARIABLES
    method,      \* which script runs
    argc,        \* len(sys.argv) - 1
    pc,          \* position in main
    inHandler,   \* TRUE once control is in an except clause of main
    interrupts,  \* KeyboardInterrupts delivered so far
    exc,         \* type name of the exception being handled
    result,      \* the local 'result' of main (envelope about to be printed)
    stdout,      \* JSON objects printed to standard output
    stderr,      \* kinds of text printed to standard error
    exitCode,    \* process exit status, -1 while running
    fs,          \* status of each path the process has looked at
    cuda,        \* os.environ['CUDA_VISIBLE_DEVICES']
    tmp,         \* temporary files that exist
    loc,         \* the other locals of main and of the function it is in
    hist         \* history: what the run has done so far

vars == <<method, argc, pc, inHandler, interrupts, exc, result, stdout, stderr,
          exitCode, fs, cuda, tmp, loc, hist>>

NoB64 == [present |-> FALSE, len |-> 0]

\* features_result before extract_radiomics_features has returned one
NoFeatures ==
    [none |-> TRUE, features |-> <<>>, feature_classes |-> <<>>,
     feature_count |-> 0, all_features |-> <<>>]

\* generate_mask has not been given a volume / has not returned yet
NoVolume == [size |-> <<>>, array |-> <<>>]
NotGenerated == [raised |-> "", ndim |-> 0, segmentation |-> <<>>, masked_img |-> <<>>]

InitLoc ==
    [params |-> NoDoc, metadata |-> NoDoc,
     model_name |-> Absent, force_cpu |-> Absent,
     image |-> NoImage, mask |-> NoImage,
     original_cuda |-> EnvUnset,
     stats |-> "unset", mask_base64 |-> NoB64, mask_size_bytes |-> 0,
     feature_classes_list |-> <<>>, bin_width |-> Absent, normalize |-> Absent,
     normalize_scale |-> Absent,
     mask_path |-> "", mask_temp_file |-> "", mask_image |-> NoImage,
     lib_features |-> <<>>, features_result |-> NoFeatures,
     img |-> NoVolume, lib_segmentation |-> <<>>, generated |-> NotGenerated]

InitHist ==
    [trace |-> <<>>, failedStep |-> "", libCalls |-> 0, imageReads |-> 0,
     tmpCreated |-> {}, apply |-> "none", swallowed |-> 0,
     paramsFile |-> "", metadataFile |-> "", cuda0 |-> EnvUnset,
     paramsParsed |-> NoDoc, metadataParsed |-> NoDoc,
     sawInvalidVolume |-> FALSE, libMaskSize |-> <<>>, stdoutOther |-> {}]

Init ==
    /\ method \in Methods
    /\ argc \in 0..RequiredArgs
    /\ pc = "start"
    /\ inHandler = FALSE
    /\ interrupts = 0
    /\ exc = ""
    /\ result = Nothing
    /\ stdout = <<>>
    /\ stderr = {}
    /\ exitCode = -1
    /\ fs = [input |-> "unknown", metadata |-> "unknown", params |-> "unknown", mask |-> "unknown"]
    /\ cuda \in (IF method = "lungmask" THEN CudaEnvs ELSE {EnvUnset})
    /\ tmp = {}
    /\ loc = InitLoc
    /\ hist = [InitHist EXCEPT !.cuda0 = cuda]

\* ------------------------------------------------------------ control
Last(seq) == seq[Len(seq)]

\* the run enters a step of the pipeline
Enter(h, step) ==
    IF h.trace # <<>> /\ Last(h.trace) = step THEN h
    ELSE [h EXCEPT !.trace = Append(h.trace, step)]

\* history of a step that ran: it was entered, and it failed or not
Did(h, step, ok) ==
    IF ok THEN Enter(h, step) ELSE [Enter(h, step) EXCEPT !.failedStep = step]

\* result = {"status": "error", "message": error}; the print and the
\* sys.exit(1) that follow are the steps PrintError and ExitError
Fail(msg) ==
    /\ result' = ErrorEnvelope(msg)
    /\ pc' = "print_error"
    /\ UNCHANGED <<exc, inHandler>>

\* the step ends normally and main goes on at next
Goto(next) ==
    /\ pc' = next
    /\ UNCHANGED <<result, exc, inHandler>>

\* an exception propagates to 'except Exception' of main
Raise(excType) ==
    /\ exc' = excType
    /\ inHandler' = TRUE
    /\ pc' = "except_exception"
    /\ UNCHANGED result

PrintError ==
    /\ pc = "print_error"
    /\ stdout' = Append(stdout, result)
    /\ pc' = "exit_error"
    /\ UNCHANGED <<method, argc, inHandler, interrupts, exc, result, stderr,
                   exitCode, fs, cuda, tmp, loc, hist>>

\* sys.exit(1): SystemExit passes both except clauses of main
ExitError ==
    /\ pc = "exit_error"
    /\ exitCode' = 1
    /\ pc' = "exited"
    /\ UNCHANGED <<method, argc, inHandler, interrupts, exc, result, stdout,
                   stderr, fs, cuda, tmp, loc, hist>>

HandleException ==
    /\ pc = "except_exception"
    /\ result' = UnexpectedEnvelope(exc)
    /\ stdout' = Append(stdout, UnexpectedEnvelope(exc))
    /\ pc' = "exit_error"
    /\ UNCHANGED <<method, argc, inHandler, interrupts, exc, stderr,
                   exitCode, fs, cuda, tmp, loc, hist>>

HandleInterrupt ==
    /\ pc = "except_kbd"
    /\ result' = InterruptEnvelope
    /\ stdout' = Append(stdout, InterruptEnvelope)
    /\ pc' = "exit_error"
    /\ UNCHANGED <<method, argc, inHandler, interrupts, exc, stderr,
                   exitCode, fs, cuda, tmp, loc, hist>>

PrintSuccess ==
    /\ pc = "print_success"
    /\ stdout' = Append(stdout, result)
    /\ pc' = "return_true"
    /\ UNCHANGED <<method, argc, inHandler, interrupts, exc, result, stderr,
                   exitCode, fs, cuda, tmp, loc, hist>>

\* return True, then sys.exit(0 if success else 1) at module level
ReturnTrue ==
    /\ pc = "return_true"
    /\ exitCode' = 0
    /\ pc' = "exited"
    /\ UNCHANGED <<method, argc, inHandler, interrupts, exc, result, stdout,
                   stderr, fs, cuda, tmp, loc, hist>>

\* ------------------------------------------------------------ arguments
\* a test that lets two arguments through
too_few_args_but_two(n) == n < RequiredArgs - 1

\* len(sys.argv) < 4, n being the number of arguments after the script name
too_few_args(n) == n < RequiredArgs

CheckArgs ==
    /\ pc = "start"
    /\ IF too_few_args(argc) THEN Fail(UsageMsg) ELSE Goto("validate_input")
    /\ UNCHANGED <<method, argc, interrupts, stdout, stderr,
                   exitCode, fs, cuda, tmp, loc, hist>>

ValidatePath(here, path, file_description, next) ==
    /\ pc = here
    /\ \E st \in PathStatuses :
         LET v == validate_file_exists(st, file_description) IN
         /\ fs' = [fs EXCEPT ![path] = st]
         /\ hist' = Did(hist, "validate", v.ok)
         /\ IF v.ok THEN Goto(next) ELSE Fail(v.error)
    /\ UNCHANGED <<method, argc, interrupts, stdout, stderr,
                   exitCode, cuda, tmp, loc>>

ValidateInput == ValidatePath("validate_input", "input", "Input file", "validate_metadata")
ValidateMetadata == ValidatePath("validate_metadata", "metadata", "Metadata file", "validate_params")
ValidateParams == ValidatePath("validate_params", "params", "Parameters file", "load_params")

\* ------------------------------------------------------------ parameters
s_null == <<"n","u","l","l">>
s_QUJD == <<"Q","U","J","D">>      \* base64 of three bytes
s_QUJ  == <<"Q","U","J">>          \* base64 text with its padding missing
s_glcm == <<"g","l","c","m",","," ","S","h","a","p","e">>   \* "glcm, Shape"
s_25   == <<"2","5">>

MaskB64Inputs == {Absent, JStr(<<>>), JStr(s_null), JStr(s_QUJD), JStr(s_QUJ), JNum(7)}
FeatureClassInputs == {Absent, JStr(s_glcm), JNum(3)}
BinWidthInputs == {Absent, JStr(s_25)}
NormalizeInputs == {Absent, JBool(TRUE), JBool(FALSE), JNum(1), JStr(s_TRUE), JStr(s_false)}
NormalizeScaleInputs == {Absent, JStr(s_25)}

PrParamsDicts ==
    {[EmptyDict EXCEPT !.mask_base64 = m, !.feature_classes = fc, !.bin_width = bw,
                       !.normalize = nz, !.normalize_scale = ns] :
        m \in MaskB64Inputs, fc \in FeatureClassInputs, bw \in BinWidthInputs,
        nz \in NormalizeInputs, ns \in NormalizeScaleInputs}

\* metadata files of the feature extraction: files is the file-reference
\* map, mask the kind of value it holds under 'mask': nothing, a path, a
\* non-empty list of paths of files that do not exist ("list"), or a
\* non-empty list whose first element is the path of a readable mask file
\* ("list_existing")
MetaDict(files, mask) == [EmptyDict EXCEPT !.files = files, !.mask = mask]
PrMetadataFiles ==
    UnparsedDocs \cup NonDictDocs \cup {Doc("int"), EmptyDict}
    \cup {MetaDict("dict", mk) : mk \in {"absent", "path", "list", "list_existing"}}

ParamsFiles(m) ==
    UnparsedDocs \cup NonDictDocs \cup
    (IF m = "lungmask" THEN LmParamsDicts ELSE PrParamsDicts)

\* a main that reads the image before it resolves the parameters
AfterLoadParamsImageFirst(m) == IF m = "lungmask" THEN "lm_read_image" ELSE "pr_read_image"

AfterLoadParams(m) == IF m = "lungmask" THEN "lm_resolve" ELSE "pr_load_metadata"

LoadParams ==
    /\ pc = "load_params"
    /\ \E content \in ParamsFiles(method) :
         LET r == load_json_file(content, "parameters file") IN
         /\ hist' = [Did(hist, "load_params", r.error = NoMsg)
                        EXCEPT !.paramsFile = content.kind, !.paramsParsed = r.value]
         /\ IF r.error # NoMsg
            THEN Fail(r.error) /\ UNCHANGED loc
            ELSE Goto(AfterLoadParams(method)) /\ loc' = [loc EXCEPT !.params = r.value]
    /\ UNCHANGED <<method, argc, interrupts, stdout, stderr, exitCode, fs, cuda, tmp>>

\* lungmask main: force_cpu given as a string
coerce_bool(v) ==
    IF v.t = "bool" THEN v ELSE JBool(lower(v.s) \in {s_true, s_1, s_yes})

LmResolveParams ==
    /\ pc = "lm_resolve"
    /\ IF loc.params.kind # "dict"
       THEN /\ Raise("AttributeError")
            /\ hist' = Did(hist, "resolve", FALSE)
            /\ UNCHANGED loc
       ELSE LET model_name == Get(loc.params.model, JStr(s_R231))
                force_cpu == Get(loc.params.force_cpu, JBool(FALSE))
            IN
            IF model_name.t # "str"
            THEN /\ Fail(Msg("must be a string, got", "model", TypeName(model_name)))
                 /\ hist' = Did(hist, "resolve", FALSE)
                 /\ loc' = [loc EXCEPT !.model_name = model_name, !.force_cpu = force_cpu]
            ELSE IF force_cpu.t # "bool" /\ force_cpu.t # "str"
            THEN /\ Fail(Msg("must be a boolean, got", "force_cpu", TypeName(force_cpu)))
                 /\ hist' = Did(hist, "resolve", FALSE)
                 /\ loc' = [loc EXCEPT !.model_name = model_name, !.force_cpu = force_cpu]
            ELSE /\ Goto("lm_read_image")
                 /\ hist' = Did(hist, "resolve", TRUE)
                 /\ loc' = [loc EXCEPT !.model_name = model_name,
                                       !.force_cpu = coerce_bool(force_cpu)]
    /\ UNCHANGED <<method, argc, interrupts, stdout, stderr, exitCode, fs, cuda, tmp>>

\* ------------------------------------------------------------ lungmask
LmReadImage ==
    /\ pc = "lm_read_image"
    /\ \E r \in ReadOutcomes :
         LET res == read_image_file_lm(fs.input, r) IN
         /\ hist' = [Did(hist, "read_image", res.error = NoMsg)
                        EXCEPT !.imageReads = hist.imageReads + 1,
                               !.sawInvalidVolume = r.ok /\ ~IsVolume3D(r)]
         /\ IF res.error # NoMsg
            THEN Fail(res.error) /\ UNCHANGED loc
            ELSE Goto("lm_apply") /\ loc' = [loc EXCEPT !.image = res.image]
    /\ UNCHANGED <<method, argc, interrupts, stdout, stderr, exitCode, fs, cuda, tmp>>

\* apply_lungmask up to the choice of the device
LmApplyEnter ==
    /\ pc = "lm_apply"
    /\ IF loc.model_name.s \notin valid_models
       THEN /\ Fail(Msg("Invalid model name", "model", ""))
            /\ hist' = [Did(hist, "invoke", FALSE) EXCEPT !.apply = "returned"]
       ELSE /\ Goto(IF loc.force_cpu.b THEN "lm_save_env" ELSE "lm_infer")
            /\ hist' = [Did(hist, "invoke", TRUE) EXCEPT !.apply = "entered"]
    /\ UNCHANGED <<method, argc, interrupts, stdout, stderr, exitCode, fs, cuda, tmp, loc>>

\* original_cuda = environ.get(...); environ[...] = ''
LmOverrideEnv ==
    /\ pc = "lm_save_env"
    /\ loc' = [loc EXCEPT !.original_cuda = cuda]
    /\ cuda' = EnvVal("")
    /\ Goto("lm_enter_try")
    /\ UNCHANGED <<method, argc, interrupts, stdout, stderr, exitCode, fs, tmp, hist>>

\* control enters the try whose finally restores the variable
LmEnterTry ==
    /\ pc = "lm_enter_try"
    /\ Goto("lm_infer")
    /\ UNCHANGED <<method, argc, interrupts, stdout, stderr, exitCode, fs, cuda, tmp, loc, hist>>

\* an apply_lungmask that does not compare the sizes
apply_error_unchecked(o, img) ==
    CASE o.type = "RuntimeError_CUDA" -> Msg("GPU error:", "", "Try setting force_cpu=true parameter.")
      [] o.type = "RuntimeError"      -> Msg("Runtime error during lungmask application:", "", "")
      [] o.type = "Exception"         -> Msg("Error applying lungmask:", "", "")
      [] o.type = "None"              -> Msg("Lungmask returned None (no mask generated)", "", "")
      [] o.type \notin {"ndarray", "sitk"} -> Msg("Lungmask returned unexpected type:", "", o.type)
      [] OTHER                        -> NoMsg

\* the message apply_lungmask returns for what the library did
apply_error(o, img) ==
    CASE o.type = "RuntimeError_CUDA" -> Msg("GPU error:", "", "Try setting force_cpu=true parameter.")
      [] o.type = "RuntimeError"      -> Msg("Runtime error during lungmask application:", "", "")
      [] o.type = "Exception"         -> Msg("Error applying lungmask:", "", "")
      [] o.type = "None"              -> Msg("Lungmask returned None (no mask generated)", "", "")
      [] o.type \notin {"ndarray", "sitk"} -> Msg("Lungmask returned unexpected type:", "", o.type)
      [] MaskImage(o).size # img.size -> SizeMsg("does not match image size",
                                                 MaskImage(o).size, img.size)
      [] OTHER                        -> NoMsg

\* the inference, the finally that restores the environment, and the checks
\* and conversion of the mask, up to the return of apply_lungmask
LmInfer ==
    /\ pc = "lm_infer"
    /\ \E o \in LibOutcomes(loc.image), lungmask_output \in LibraryPrints :
         LET error == apply_error(o, loc.image) IN
         /\ cuda' = IF loc.force_cpu.b THEN RestoreCuda(loc.original_cuda) ELSE cuda
         \* redirect_stdout(f): what the library printed is in f; it is printed
         \* to stderr when the call returns and dropped when it raises
         /\ stderr' = IF o.type \in {"RuntimeError_CUDA", "RuntimeError", "Exception"}
                         \/ lungmask_output = {}
                      THEN stderr ELSE stderr \cup lungmask_output
         /\ hist' = [Did(hist, "invoke", error = NoMsg)
                        EXCEPT !.libCalls = hist.libCalls + 1, !.apply = "returned",
                               !.libMaskSize = IF o.type \in {"ndarray", "sitk"}
                                               THEN MaskImage(o).size ELSE <<>>]
         /\ IF error # NoMsg
            THEN Fail(error) /\ UNCHANGED loc
            ELSE /\ Goto("lm_stats")
                 /\ loc' = [loc EXCEPT !.mask = SetGeometry(MaskImage(o), loc.image)]
    /\ UNCHANGED <<method, argc, interrupts, stdout, exitCode, fs, tmp>>

\* get_mask_statistics: a failure is not fatal, stats = {}
LmStatistics ==
    /\ pc = "lm_stats"
    /\ \E ok \in BOOLEAN :
         loc' = [loc EXCEPT !.stats = IF ok THEN "statistics" ELSE "empty"]
    /\ hist' = Did(hist, "statistics", TRUE)
    /\ Goto("lm_load_metadata")
    /\ UNCHANGED <<method, argc, interrupts, stdout, stderr, exitCode, fs, cuda, tmp>>

\* a metadata file that cannot be loaded is replaced by {}
LmLoadMetadata ==
    /\ pc = "lm_load_metadata"
    /\ \E content \in LmMetadataFiles :
         LET r == load_json_file(content, "metadata file") IN
         /\ loc' = [loc EXCEPT !.metadata = IF r.error # NoMsg THEN EmptyDict ELSE r.value]
         /\ hist' = [Did(hist, "load_metadata", TRUE)
                        EXCEPT !.metadataFile = content.kind, !.metadataParsed = r.value]
    /\ Goto("lm_tmp_open")
    /\ UNCHANGED <<method, argc, interrupts, stdout, stderr, exitCode, fs, cuda, tmp>>

\* with tempfile.NamedTemporaryFile(suffix='.nii.gz', delete=True)
LmTmpOpen ==
    /\ pc = "lm_tmp_open"
    /\ hist' = [Did(hist, "package", TRUE) EXCEPT !.tmpCreated = hist.tmpCreated \cup {"seg_tmp"}]
    /\ tmp' = tmp \cup {"seg_tmp"}
    /\ Goto("lm_tmp_body")
    /\ UNCHANGED <<method, argc, interrupts, stdout, stderr, exitCode, fs, cuda, loc>>

\* body of the with block, the deletion of the file at its end, and the
\* except clause that makes a failure non-fatal
LmEncodeMask ==
    /\ pc = "lm_tmp_body"
    /\ tmp' = tmp \ {"seg_tmp"}
    /\ \/ \E n \in MaskFileSizes :
            IF fits_inline(n)
            THEN /\ loc' = [loc EXCEPT !.mask_size_bytes = n,
                                       !.mask_base64 = [present |-> TRUE, len |-> b64len(n)]]
                 /\ UNCHANGED stderr
            ELSE /\ loc' = [loc EXCEPT !.mask_size_bytes = n, !.mask_base64 = NoB64]
                 /\ stderr' = stderr \cup {"Warning: Mask too large for base64 encoding"}
       \/ \* an exception before the size is known, or in the encoding
          /\ \E n \in {0} \cup {k \in MaskFileSizes : fits_inline(k)} :
                loc' = [loc EXCEPT !.mask_size_bytes = n, !.mask_base64 = NoB64]
          /\ stderr' = stderr \cup {"Warning: Could not encode mask as base64"}
    /\ Goto("lm_package")
    /\ UNCHANGED <<method, argc, interrupts, stdout, exitCode, fs, cuda, hist>>

LmPackage ==
    /\ pc = "lm_package"
    /\ result' =
         SuccessEnvelope(
          Msg("Successfully generated lung mask using model", "", ""),
          [keys |-> {"mask_base64", "mask_size_bytes", "mask_format",
                              "statistics", "mask_metadata"},
                    mask_base64 |-> loc.mask_base64,
                    mask_size_bytes |-> loc.mask_size_bytes,
                    statistics |-> loc.stats,
                    mask_metadata |-> [size |-> loc.mask.size, geo |-> loc.mask.geo]],
          [method |-> "lungmask",
                        model |-> loc.model_name,
                        force_cpu |-> loc.force_cpu,
                        input_image_size |-> loc.image.size,
                        input_image_geo |-> loc.image.geo,
                        original_metadata |-> loc.metadata],
          loc.params)
    /\ pc' = "print_success"
    /\ hist' = Did(hist, "package", TRUE)
    /\ UNCHANGED <<method, argc, inHandler, interrupts, exc, stdout, stderr,
                   exitCode, fs, cuda, tmp, loc>>

\* ------------------------------------------------------------ pyradiomics
\* pyradiomics read_image_file
read_image_file_pr(st, r, file_description) ==
    LET v == validate_file_exists(st, file_description) IN
    IF ~v.ok THEN [image |-> NoImage, error |-> v.error]
    ELSE IF ~r.ok THEN [image |-> NoImage, error |-> Msg("Failed to read image file", "", "")]
    ELSE IF r.size[1] = 0 \/ r.size[2] = 0
         THEN [image |-> NoImage, error |-> Msg("Image appears to be empty", "", "")]
    ELSE [image |-> r, error |-> NoMsg]

\* in feature extraction a metadata file that cannot be loaded is fatal
PrLoadMetadata ==
    /\ pc = "pr_load_metadata"
    /\ \E content \in PrMetadataFiles :
         LET r == load_json_file(content, "metadata file") IN
         /\ hist' = [Did(hist, "load_metadata", r.error = NoMsg)
                        EXCEPT !.metadataFile = content.kind, !.metadataParsed = r.value]
         /\ IF r.error # NoMsg
            THEN Fail(r.error) /\ UNCHANGED loc
            ELSE Goto("pr_resolve") /\ loc' = [loc EXCEPT !.metadata = r.value]
    /\ UNCHANGED <<method, argc, interrupts, stdout, stderr, exitCode, fs, cuda, tmp>>

\* str.split(sep) for a separator of one character: the pieces of s
\* between the separators
RECURSIVE SplitFrom(_, _, _, _)
SplitFrom(s, sep, i, piece) ==
    IF i > Len(s) THEN <<piece>>
    ELSE IF s[i] = sep THEN <<piece>> \o SplitFrom(s, sep, i + 1, <<>>)
    ELSE SplitFrom(s, sep, i + 1, Append(piece, s[i]))
split(s, sep) == SplitFrom(s, sep, 1, <<>>)

\* str.strip(): s without the blanks at its ends
RECURSIVE strip(_)
strip(s) ==
    IF s = <<>> THEN s
    ELSE IF Head(s) = " " THEN strip(Tail(s))
    ELSE IF s[Len(s)] = " " THEN strip(SubSeq(s, 1, Len(s) - 1))
    ELSE s

\* "firstorder,shape,glcm,glrlm,glszm,gldm,ngtdm"
s_default_classes ==
    <<"f","i","r","s","t","o","r","d","e","r",",","s","h","a","p","e",",",
      "g","l","c","m",",","g","l","r","l","m",",","g","l","s","z","m",",",
      "g","l","d","m",",","n","g","t","d","m">>

\* params.get(...) of the five options; the values are used as given
PrResolveParams ==
    /\ pc = "pr_resolve"
    /\ IF loc.params.kind # "dict"
       THEN /\ Raise("AttributeError")
            /\ hist' = Did(hist, "resolve", FALSE)
            /\ UNCHANGED loc
       ELSE LET feature_classes_str == Get(loc.params.feature_classes, JStr(s_default_classes))
                locals == [loc EXCEPT !.bin_width = Get(loc.params.bin_width, JNum(25)),
                                      !.normalize = Get(loc.params.normalize, JBool(FALSE)),
                                      !.normalize_scale = Get(loc.params.normalize_scale, JNum(100))]
            IN
            IF feature_classes_str.t # "str"
            THEN /\ Raise("AttributeError")
                 /\ hist' = Did(hist, "resolve", FALSE)
                 /\ loc' = locals
            ELSE /\ Goto("pr_mask")
                 /\ hist' = Did(hist, "resolve", TRUE)
                 /\ loc' = [locals EXCEPT !.feature_classes_list =
                                      LET pieces == split(feature_classes_str.s, ",") IN
                                      [i \in 1..Len(pieces) |-> strip(pieces[i])]]
    /\ UNCHANGED <<method, argc, interrupts, stdout, stderr, exitCode, fs, cuda, tmp>>

\* base64.b64decode of a str: characters outside the alphabet are dropped,
\* what is left must come in groups of four
B64Alphabet ==
    {Upper[i] : i \in 1..26} \cup {LowerTab[i] : i \in 1..26}
    \cup {"0","1","2","3","4","5","6","7","8","9","+","/","="}
b64decode_ok(s) == Cardinality({i \in 1..Len(s) : s[i] \in B64Alphabet}) % 4 = 0

\* decode_mask_from_base64: the temporary file it leaves, or an error
decode_mask_from_base64(mask_base64) ==
    IF mask_base64.t # "str" \/ ~b64decode_ok(mask_base64.s)
    THEN [tmp_path |-> "", error |-> Msg("Failed to decode mask from base64:", "", "")]
    ELSE [tmp_path |-> "mask_b64_tmp", error |-> NoMsg]

\* if mask_base64 and mask_base64 != "null" and mask_base64 != ""
mask_given(mask_base64) ==
    Truthy(mask_base64) /\ mask_base64 # JStr(s_null) /\ mask_base64 # JStr(<<>>)

\* What a mask file named by the metadata holds: a volume whose first byte
\* is one of the three listed, other binary data, base64 text of more than
\* 100 characters (well or badly padded), or other text.
MaskFileKinds == {"volume", "binary", "base64", "base64_badpad", "text"}

\* the mask found through metadata['files']: "" when there is none
metadata_mask(metadata) ==
    IF metadata.kind = "dict" /\ metadata.files = "dict" /\ metadata.mask # "absent"
    THEN metadata.mask ELSE ""

\* Determine mask path (mask_base64 or the metadata), decode a base64 text
\* file, and validate the resulting mask file
PrResolveMask ==
    /\ pc = "pr_mask"
    /\ LET mask_base64 == Get(loc.params.mask_base64, JNull) IN
       IF mask_given(mask_base64)
       THEN LET d == decode_mask_from_base64(mask_base64) IN
            IF d.error # NoMsg
            THEN /\ Fail(d.error)
                 /\ hist' = Did(hist, "resolve", FALSE)
                 /\ UNCHANGED <<loc, tmp, fs>>
            ELSE /\ Goto("pr_read_image")
                 /\ tmp' = tmp \cup {d.tmp_path}
                 /\ hist' = [Did(hist, "resolve", TRUE)
                               EXCEPT !.tmpCreated = hist.tmpCreated \cup {d.tmp_path}]
                 /\ loc' = [loc EXCEPT !.mask_path = d.tmp_path, !.mask_temp_file = d.tmp_path]
                 /\ fs' = [fs EXCEPT !.mask = "ok"]
       ELSE IF loc.metadata.kind = "int"
       THEN \* 'files' in metadata
            /\ Raise("TypeError")
            /\ hist' = Did(hist, "resolve", FALSE)
            /\ UNCHANGED <<loc, tmp, fs>>
       ELSE IF metadata_mask(loc.metadata) \in {"list", "list_existing"}
       THEN \* os.path.exists(mask_path) of a list
            /\ Raise("TypeError")
            /\ hist' = Did(hist, "resolve", FALSE)
            /\ UNCHANGED <<loc, tmp, fs>>
       ELSE IF metadata_mask(loc.metadata) = ""
       THEN /\ Fail(Msg("Mask not provided.", "", ""))
            /\ hist' = Did(hist, "resolve", FALSE)
            /\ UNCHANGED <<loc, tmp, fs>>
       ELSE \E st \in PathStatuses \ {"empty"} :
            /\ fs' = [fs EXCEPT !.mask = st]
            /\ IF st = "missing"
               THEN /\ Fail(Msg("Mask not provided.", "", ""))
                    /\ hist' = Did(hist, "resolve", FALSE)
                    /\ loc' = [loc EXCEPT !.mask_path = "mask_file"]
                    /\ UNCHANGED tmp
               ELSE IF st # "ok"
               THEN /\ Fail(validate_file_exists(st, "Mask file").error)
                    /\ hist' = Did(hist, "resolve", FALSE)
                    /\ loc' = [loc EXCEPT !.mask_path = "mask_file"]
                    /\ UNCHANGED tmp
               ELSE \E kind \in MaskFileKinds :
                    /\ Goto("pr_read_image")
                    /\ IF kind = "base64"
                       THEN /\ tmp' = tmp \cup {"mask_ref_tmp"}
                            /\ hist' = [Did(hist, "resolve", TRUE)
                                          EXCEPT !.tmpCreated = hist.tmpCreated \cup {"mask_ref_tmp"}]
                            /\ loc' = [loc EXCEPT !.mask_path = "mask_ref_tmp",
                                                  !.mask_temp_file = "mask_ref_tmp"]
                       ELSE /\ hist' = Did(hist, "resolve", TRUE)
                            /\ loc' = [loc EXCEPT !.mask_path = "mask_file"]
                            /\ UNCHANGED tmp
    /\ UNCHANGED <<method, argc, interrupts, stdout, stderr, exitCode, cuda>>

PrReadImage ==
    /\ pc = "pr_read_image"
    /\ \E r \in ReadOutcomes :
         LET res == read_image_file_pr(fs.input, r, "Image file") IN
         /\ hist' = [Did(hist, "read_image", res.error = NoMsg)
                        EXCEPT !.imageReads = hist.imageReads + 1,
                               !.sawInvalidVolume = r.ok /\ ~IsVolume3D(r)]
         /\ IF res.error # NoMsg
            THEN Fail(res.error) /\ UNCHANGED loc
            ELSE Goto("pr_read_mask") /\ loc' = [loc EXCEPT !.image = res.image]
    /\ UNCHANGED <<method, argc, interrupts, stdout, stderr, exitCode, fs, cuda, tmp>>

\* a comparison of the sizes that looks at the first two axes only
same_size_in_plane(image_size, mask_size) ==
    image_size[1] = mask_size[1] /\ image_size[2] = mask_size[2]

\* image.GetSize() != mask_image.GetSize() is its negation
same_size(image_size, mask_size) == image_size = mask_size

\* read the mask, compare the sizes and configure the settings
PrReadMask ==
    /\ pc = "pr_read_mask"
    /\ \E r \in ReadOutcomes :
         LET res == read_image_file_pr(fs.mask, r, "Image file") IN
         /\ IF res.error # NoMsg
            THEN /\ Fail(res.error)
                 /\ hist' = [Did(hist, "read_image", FALSE) EXCEPT !.sawInvalidVolume =
                                    hist.sawInvalidVolume \/ (r.ok /\ ~IsVolume3D(r))]
                 /\ UNCHANGED loc
            ELSE IF ~same_size(loc.image.size, res.image.size)
            THEN /\ Fail(SizeMsg("does not match mask size", loc.image.size, res.image.size))
                 /\ hist' = [Did(hist, "read_image", FALSE) EXCEPT !.sawInvalidVolume =
                                    hist.sawInvalidVolume \/ (r.ok /\ ~IsVolume3D(r))]
                 /\ loc' = [loc EXCEPT !.mask_image = res.image]
            ELSE /\ Goto("pr_extract")
                 /\ hist' = [Did(hist, "read_image", TRUE) EXCEPT !.sawInvalidVolume =
                                    hist.sawInvalidVolume \/ (r.ok /\ ~IsVolume3D(r))]
                 /\ loc' = [loc EXCEPT !.mask_image = res.image]
    /\ UNCHANGED <<method, argc, interrupts, stdout, stderr, exitCode, fs, cuda, tmp>>

\* ---- extract_radiomics_features: the features organized by class
\* A dict is the sequence of its entries [key, value] in insertion order.
Keys(d) == [i \in 1..Len(d) |-> d[i].key]
HasKey(d, k) == \E i \in 1..Len(d) : d[i].key = k
Lookup(d, k) == d[CHOOSE i \in 1..Len(d) : d[i].key = k].value
\* d[k] = v
Put(d, k, v) ==
    IF HasKey(d, k)
    THEN [i \in 1..Len(d) |-> IF d[i].key = k THEN [key |-> k, value |-> v] ELSE d[i]]
    ELSE Append(d, [key |-> k, value |-> v])

s_diagnostics == <<"d","i","a","g","n","o","s","t","i","c","s">>
s_original == <<"o","r","i","g","i","n","a","l">>
s_wavelet == <<"w","a","v","e","l","e","t">>
s_other == <<"o","t","h","e","r">>

\* str.startswith(prefix)
startswith(s, prefix) ==
    Len(s) >= Len(prefix) /\ SubSeq(s, 1, Len(prefix)) = prefix

\* sub in s
contains(s, sub) ==
    \E i \in 1..(Len(s) - Len(sub) + 1) : SubSeq(s, i, i + Len(sub) - 1) = sub

\* the class of a feature, from its name
class_name(feature_name) ==
    LET parts == split(feature_name, "_") IN
    IF Len(parts) >= 2
    THEN IF parts[1] = s_original THEN parts[2]
         ELSE IF contains(parts[1], s_wavelet) THEN s_wavelet \o <<"_">> \o parts[2]
         ELSE parts[1]
    ELSE s_other

\* float(v) if isinstance(v, (int, float)) else str(v), on the type of v
convert(v) == IF v \in {"int", "float"} THEN "float" ELSE "str"

\* the loop over features.items(), from entry i on
RECURSIVE organize(_, _, _, _)
organize(features, i, feature_classes, feature_count) ==
    IF i > Len(features)
    THEN [feature_classes |-> feature_classes, feature_count |-> feature_count]
    ELSE LET feature_name == features[i].key
             c == class_name(feature_name)
             old == IF HasKey(feature_classes, c) THEN Lookup(feature_classes, c) ELSE <<>>
         IN
         IF startswith(feature_name, s_diagnostics)
         THEN organize(features, i + 1, feature_classes, feature_count)
         ELSE organize(features, i + 1,
                       Put(feature_classes, c,
                           Put(old, feature_name, convert(features[i].value))),
                       feature_count + 1)

\* an all_features that keeps the diagnostic entries
RECURSIVE all_features_unfiltered(_)
all_features_unfiltered(features) ==
    IF features = <<>> THEN <<>>
    ELSE <<[key |-> Head(features).key, value |-> convert(Head(features).value)]>>
         \o all_features_unfiltered(Tail(features))

\* {k: ... for k, v in features.items() if not k.startswith('diagnostics')}
RECURSIVE all_features(_)
all_features(features) ==
    IF features = <<>> THEN <<>>
    ELSE (IF startswith(Head(features).key, s_diagnostics) THEN <<>>
          ELSE <<[key |-> Head(features).key, value |-> convert(Head(features).value)]>>)
         \o all_features(Tail(features))

\* the dict extract_radiomics_features returns for the mapping of the library
features_result(features) ==
    LET o == organize(features, 1, <<>>, 0) IN
    [none |-> FALSE,
     features |-> o.feature_classes,
     feature_classes |-> Keys(o.feature_classes),
     feature_count |-> o.feature_count,
     all_features |-> all_features(features)]

\* feature names: a diagnostic entry, two features of one class, a wavelet
\* feature, a feature of another image type, one without image type and a
\* name without underscore
f_diag   == s_diagnostics \o <<"_","V">>
f_orig_a == s_original \o <<"_","g","l","c","m","_","a">>
f_orig_b == s_original \o <<"_","g","l","c","m","_","b">>
f_wav    == s_wavelet \o <<"-","L","_","g","l","c","m","_","a">>
f_log    == <<"l","o","g","_","g","l","c","m","_","a">>
f_glcm   == <<"g","l","c","m","_","a">>
f_flat   == <<"M","e","a","n">>
FeatureNames == {f_diag, f_orig_a, f_orig_b, f_wav, f_log, f_glcm, f_flat}
FeatureValues == {"int", "ndarray"}
FeatureEntries == {[key |-> k, value |-> v] : k \in FeatureNames, v \in FeatureValues}

\* the mappings extractor.execute can return: entries with distinct names
FeatureInputs ==
    {f \in UNION {[1..n -> FeatureEntries] : n \in 0..MaxFeatures} :
        \A i, j \in 1..Len(f) : i # j => f[i].key # f[j].key}

\* the mappings the library returns in the runs of main
LibFeatureMaps ==
    {<<>>,
     <<[key |-> f_diag, value |-> "ndarray"], [key |-> f_orig_a, value |-> "int"],
       [key |-> f_flat, value |-> "ndarray"]>>}

\* extract_radiomics_features; what the library prints while it runs goes
\* to sys.stdout, which nothing redirects
PrExtract ==
    /\ pc = "pr_extract"
    /\ \E ok \in BOOLEAN, output \in LibraryPrints, features \in LibFeatureMaps :
         /\ hist' = [Did(hist, "invoke", ok) EXCEPT !.libCalls = hist.libCalls + 1,
                                                   !.stdoutOther = hist.stdoutOther \cup output]
         /\ IF ok
            THEN /\ Goto("pr_cleanup")
                 /\ loc' = [loc EXCEPT !.lib_features = features,
                                       !.features_result = features_result(features)]
            ELSE Fail(Msg("Error extracting radiomic features:", "", "")) /\ UNCHANGED loc
    /\ UNCHANGED <<method, argc, interrupts, stdout, stderr, exitCode, fs, cuda, tmp>>

\* if mask_temp_file and os.path.exists(mask_temp_file)
PrCleanupCheck ==
    /\ pc = "pr_cleanup"
    /\ Goto(IF loc.mask_temp_file # "" /\ loc.mask_temp_file \in tmp
            THEN "pr_unlink" ELSE "pr_package")
    /\ hist' = Did(hist, "cleanup", TRUE)
    /\ UNCHANGED <<method, argc, interrupts, stdout, stderr, exitCode, fs, cuda, tmp, loc>>

\* try: os.unlink(mask_temp_file)
PrUnlink ==
    /\ pc = "pr_unlink"
    /\ tmp' = tmp \ {loc.mask_temp_file}
    /\ Goto("pr_package")
    /\ UNCHANGED <<method, argc, interrupts, stdout, stderr, exitCode, fs, cuda, loc, hist>>

PrPackage ==
    /\ pc = "pr_package"
    /\ result' =
         SuccessEnvelope(
          Msg("Successfully extracted radiomic features", "", ""),
          [keys |-> {"features", "feature_classes", "feature_count", "all_features"},
                    features |-> loc.features_result.features,
                    feature_classes |-> loc.features_result.feature_classes,
                    feature_count |-> loc.features_result.feature_count,
                    all_features |-> loc.features_result.all_features],
          [method |-> "pyradiomics",
                        image_size |-> loc.image.size,
                        mask_size |-> loc.mask_image.size,
                        settings |-> [bin_width |-> loc.bin_width,
                                      normalize |-> loc.normalize,
                                      normalize_scale |-> IF Truthy(loc.normalize)
                                                          THEN loc.normalize_scale ELSE JNull,
                                      feature_classes |-> loc.feature_classes_list],
                        original_metadata |-> loc.metadata],
          loc.params)
    /\ pc' = "print_success"
    /\ hist' = Did(hist, "package", TRUE)
    /\ UNCHANGED <<method, argc, inHandler, interrupts, exc, stdout, stderr,
                   exitCode, fs, cuda, tmp, loc>>

\* ------------------------------------------------------------ interruption
\* A KeyboardInterrupt is raised at the current position of main.  In an
\* except clause of main nothing catches it; in the try around os.unlink
\* the bare except swallows it; elsewhere the finally blocks and the with
\* blocks on the way run, and 'except KeyboardInterrupt' of main gets it.
Interrupt ==
    /\ pc # "exited"
    /\ interrupts < MaxInterrupts
    /\ interrupts' = interrupts + 1
    /\ IF inHandler
       THEN /\ \E code \in UncaughtInterruptExit : exitCode' = code
            /\ pc' = "exited"
            /\ UNCHANGED <<inHandler, exc, cuda, tmp, hist>>
       ELSE IF pc = "pr_unlink"
       THEN /\ pc' = "pr_package"
            /\ hist' = [hist EXCEPT !.swallowed = hist.swallowed + 1]
            /\ UNCHANGED <<inHandler, exc, cuda, tmp, exitCode>>
       ELSE /\ pc' = "except_kbd"
            /\ inHandler' = TRUE
            /\ exc' = "KeyboardInterrupt"
            /\ cuda' = IF pc = "lm_infer" /\ loc.force_cpu.b
                       THEN RestoreCuda(loc.original_cuda) ELSE cuda
            /\ tmp' = IF pc = "lm_tmp_body" THEN tmp \ {"seg_tmp"} ELSE tmp
            /\ UNCHANGED <<exitCode, hist>>
    /\ UNCHANGED <<method, argc, result, stdout, stderr, fs, loc>>

\* ------------------------------------------------------------ specification
Next ==
    \/ CheckArgs
    \/ ValidateInput
    \/ ValidateMetadata
    \/ ValidateParams
    \/ LoadParams
    \/ LmResolveParams
    \/ LmReadImage
    \/ LmApplyEnter
    \/ LmOverrideEnv
    \/ LmEnterTry
    \/ LmInfer
    \/ LmStatistics
    \/ LmLoadMetadata
    \/ LmTmpOpen
    \/ LmEncodeMask
    \/ LmPackage
    \/ PrLoadMetadata
    \/ PrResolveParams
    \/ PrResolveMask
    \/ PrReadImage
    \/ PrReadMask
    \/ PrExtract
    \/ PrCleanupCheck
    \/ PrUnlink
    \/ PrPackage
    \/ PrintSuccess
    \/ ReturnTrue
    \/ PrintError
    \/ ExitError
    \/ HandleException
    \/ HandleInterrupt
    \/ Interrupt

Spec == Init /\ [][Next]_vars

\* ---- extract_radiomics_features on its own: the library has returned a
\* feature mapping, and the function organizes it
FeatureInit ==
    /\ method = "pyradiomics"
    /\ argc = RequiredArgs
    /\ pc = "organize"
    /\ inHandler = FALSE
    /\ interrupts = 0
    /\ exc = ""
    /\ result = Nothing
    /\ stdout = <<>>
    /\ stderr = {}
    /\ exitCode = -1
    /\ fs = [input |-> "ok", metadata |-> "ok", params |-> "ok", mask |-> "ok"]
    /\ cuda = EnvUnset
    /\ tmp = {}
    /\ \E features \in FeatureInputs : loc = [InitLoc EXCEPT !.lib_features = features]
    /\ hist = InitHist

Organize ==
    /\ pc = "organize"
    /\ loc' = [loc EXCEPT !.features_result = features_result(loc.lib_features)]
    /\ pc' = "organized"
    /\ UNCHANGED <<method, argc, inHandler, interrupts, exc, result, stdout, stderr,
                   exitCode, fs, cuda, tmp, hist>>

FeatureNext == Organize

FeatureSpec == FeatureInit /\ [][FeatureNext]_vars

\* ------------------------------------------- generate_mask (functions.py)
\* The helper of the R package that segments a volume and masks it.  An
\* array is a sequence of sequences, outermost axis first, as numpy orders
\* them: a volume of SimpleITK size (x, y, z) is an array of shape
\* (z, y, x).  Python index i is index i + 1 here.

\* What the slices of a volume hold: air (-1000 HU), zeros, or intensities
\* that differ from voxel to voxel
ImgPatterns == {"air", "zero", "ramp"}
intensity(p, i, r, c) ==
    CASE p = "air" -> -1000
      [] p = "zero" -> 0
      [] OTHER -> 100 * i + 10 * r + c

SitkVolume(x, y, ips) ==
    [size |-> <<x, y, Len(ips)>>,
     array |-> [i \in 1..Len(ips) |-> [r \in 1..y |-> [c \in 1..x |->
                    intensity(ips[i], i, r, c)]]]]
GetSize(img) == img.size
GetArrayFromImage(img) == img.array

\* What mask.apply labels in a slice: nothing, right lung (1) everywhere,
\* left lung (2) everywhere, or a mixture of background and both lungs
SegPatterns == {"none", "right", "left", "mixed"}
label(p, r, c) ==
    CASE p = "none" -> 0
      [] p = "right" -> 1
      [] p = "left" -> 2
      [] OTHER -> (r + c) % 3

\* mask.apply(img): a label array of the shape of the image array
LibSegmentation(img, sps) ==
    [i \in 1..GetSize(img)[3] |-> [r \in 1..GetSize(img)[2] |->
        [c \in 1..GetSize(img)[1] |-> label(sps[i], r, c)]]]

\* segmentation[segmentation > 0] = 1
binarize(segmentation) ==
    [i \in 1..Len(segmentation) |-> [r \in 1..Len(segmentation[i]) |->
        [c \in 1..Len(segmentation[i][r]) |->
            IF segmentation[i][r][c] > 0 THEN 1 ELSE segmentation[i][r][c]]]]

\* np.zeros((d0, d1, d2))
zeros(d0, d1, d2) == [i \in 1..d0 |-> [r \in 1..d1 |-> [c \in 1..d2 |-> 0]]]

\* np.where(seg == 1, arr, 0) on two slices of the same shape
where(seg, arr) ==
    [r \in 1..Len(seg) |-> [c \in 1..Len(seg[r]) |->
        IF seg[r][c] = 1 THEN arr[r][c] ELSE 0]]

\* numpy assignment target[:, :] = source: source is broadcast to the shape
\* of target, which needs every axis of source to have that length or 1
shape(a) == <<Len(a), Len(a[1])>>
broadcastable(source, target) ==
    \A k \in 1..2 : shape(source)[k] = shape(target)[k] \/ shape(source)[k] = 1
broadcast_to(source, target) ==
    [r \in 1..shape(target)[1] |-> [c \in 1..shape(target)[2] |->
        source[IF shape(source)[1] = 1 THEN 1 ELSE r]
              [IF shape(source)[2] = 1 THEN 1 ELSE c]]]

\* for i in range(1, segmentation.__len__()): masked_img[i,:,:] = ...
\* (i is the Python index)
RECURSIVE mask_slices(_, _, _, _)
mask_slices(masked_img, segmentation, arr, i) ==
    IF i >= Len(segmentation) THEN [raised |-> "", masked_img |-> masked_img]
    ELSE LET source == where(segmentation[i + 1], arr[i + 1])
         IN  IF ~broadcastable(source, masked_img[i + 1])
             THEN [raised |-> "ValueError", masked_img |-> masked_img]
             ELSE mask_slices(
                     [masked_img EXCEPT ![i + 1] = broadcast_to(source, masked_img[i + 1])],
                     segmentation, arr, i + 1)

\* generate_mask(img), lib_segmentation being what mask.apply returned.
\* ndim is the number of axes of the two arrays returned; a pair of 2-D
\* arrays is held as a single slice.
generate_mask(img, lib_segmentation) ==
    LET segmentation == binarize(lib_segmentation)
        arr == GetArrayFromImage(img)
    IN  IF GetSize(img)[3] > 1
        THEN LET filled == mask_slices(
                     zeros(GetSize(img)[3], GetSize(img)[1], GetSize(img)[2]),
                     segmentation, arr, 1)
             IN  IF filled.raised # ""
                 THEN [raised |-> filled.raised, ndim |-> 0,
                       segmentation |-> <<>>, masked_img |-> <<>>]
                 ELSE [raised |-> "", ndim |-> 3,
                       segmentation |-> segmentation,
                       masked_img |-> filled.masked_img]
        ELSE [raised |-> "", ndim |-> 2,
              segmentation |-> <<segmentation[1]>>,
              masked_img |-> <<where(segmentation[1], arr[1])>>]

\* generate_mask on its own: a volume of up to MaxSide x MaxSide x MaxDepth
\* voxels is handed over, the library labels it, the function returns.
MaskInit ==
    /\ method = "lungmask"
    /\ argc = RequiredArgs
    /\ pc = "generate_mask"
    /\ inHandler = FALSE
    /\ interrupts = 0
    /\ exc = ""
    /\ result = Nothing
    /\ stdout = <<>>
    /\ stderr = {}
    /\ exitCode = -1
    /\ fs = [input |-> "ok", metadata |-> "ok", params |-> "ok", mask |-> "ok"]
    /\ cuda = EnvUnset
    /\ tmp = {}
    /\ \E x \in 1..MaxSide, y \in 1..MaxSide, z \in 1..MaxDepth :
         \E ips \in [1..z -> ImgPatterns] :
            loc = [InitLoc EXCEPT !.img = SitkVolume(x, y, ips)]
    /\ hist = InitHist

GenerateMask ==
    /\ pc = "generate_mask"
    /\ \E sps \in [1..GetSize(loc.img)[3] -> SegPatterns] :
         LET lib_segmentation == LibSegmentation(loc.img, sps)
         IN  loc' = [loc EXCEPT !.lib_segmentation = lib_segmentation,
                                !.generated = generate_mask(loc.img, lib_segmentation)]
    /\ pc' = "generated"
    /\ UNCHANGED <<method, argc, inHandler, interrupts, exc, result, stdout,
                   stderr, exitCode, fs, cuda, tmp, hist>>

MaskNext == GenerateMask
MaskSpec == MaskInit /\ [][MaskNext]_vars

TypeOK ==
    /\ method \in Methods
    /\ exitCode \in {-1, 0, 1, 130}
    /\ (pc = "exited") = (exitCode # -1)

\* ============================================================ properties
Exited == pc = "exited"
Envelopes == {stdout[i] : i \in 1..Len(stdout)}
Statuses == {stdout[i].status : i \in 1..Len(stdout)}

\* C1: every invocation that terminates has written exactly one JSON object
\* to standard output by the time the process exits, never zero, never two.
C1_ExactlyOneJsonObject ==
    Exited => Len(stdout) = 1

\* C2: the exit code is 0 if and only if the emitted envelope has status
\* "success", and every envelope with status "error" is followed by exit
\* code 1.
C2_ExitCodeMatchesStatus ==
    Exited => /\ (exitCode = 0) <=> ("success" \in Statuses)
              /\ ("error" \in Statuses) => exitCode = 1

\* C3: a metadata file that is not valid JSON is never fatal: the metadata
\* becomes the empty mapping and the load step does not fail the run.
C3_MalformedMetadataNotFatal ==
    hist.metadataFile = "malformed" =>
        /\ loc.metadata = EmptyDict
        /\ hist.failedStep # "load_metadata"

\* C4: when the parameters file is not valid JSON (the three paths being
\* valid files), the image is never read and the external processor never
\* invoked, and a run that is not interrupted ends with exit code 1 after
\* one error envelope whose message holds the JSON parser's diagnostic.
C4_MalformedParamsFatal ==
    hist.paramsFile = "malformed" =>
        /\ hist.imageReads = 0
        /\ hist.libCalls = 0
        /\ fs.input = "ok" /\ fs.metadata = "ok" /\ fs.params = "ok"
        /\ (Exited /\ interrupts = 0) =>
              /\ stdout = <<ErrorEnvelope(Msg("Invalid JSON in", "parameters file", JSONDiag))>>
              /\ exitCode = 1

C4_Witness ==
    /\ Exited /\ interrupts = 0 /\ exitCode = 1
    /\ hist.paramsFile = "malformed"
    /\ Len(stdout) = 1 /\ stdout[1].message.arg = JSONDiag

\* C5: on every exit path no temporary file the invocation created is left.
C5_NoTempFileAtExit ==
    Exited => tmp \cap hist.tmpCreated = {}

\* The boolean option of the method: as the parameters file gives it, and as
\* the method uses it after resolution.
BoolGiven == IF method = "lungmask" THEN loc.params.force_cpu ELSE loc.params.normalize
BoolUsed == IF method = "lungmask" THEN loc.force_cpu ELSE loc.normalize

\* the truth value the contract gives to an absent, boolean or string value
ContractTruth(v) ==
    CASE v.t = "absent" -> FALSE
      [] v.t = "bool"   -> v.b
      [] OTHER          -> v.s \in {s_true, s_TRUE, s_1, s_yes}

\* C6: a boolean option given as a boolean is used as given, given as a
\* string it is true exactly for "true", "1", "yes" in any case, and given
\* as any other type it is a fatal error: exit code 1, processor not invoked.
C6_BooleanCoercion ==
    /\ hist.libCalls > 0 =>
          /\ BoolGiven.t \in {"absent", "bool", "str"}
          /\ BoolUsed = JBool(ContractTruth(BoolGiven))
    /\ (loc.params.kind = "dict" /\ BoolGiven.t \in {"int", "NoneType"}
          /\ Exited /\ interrupts = 0) =>
          /\ exitCode = 1
          /\ hist.libCalls = 0

\* C7: CUDA_VISIBLE_DEVICES is the same after apply_lungmask returns as
\* before it was called, whatever the inference did; it differs from its
\* original value only as the empty string, with force_cpu true, while the
\* call has not returned; with force_cpu false it is never modified.
C7_CudaEnvRestored ==
    /\ hist.apply = "returned" => cuda = hist.cuda0
    /\ cuda # hist.cuda0 =>
          /\ cuda = EnvVal("")
          /\ loc.force_cpu = JBool(TRUE)
          /\ hist.apply = "entered"
    /\ loc.force_cpu # JBool(TRUE) => cuda = hist.cuda0

\* the inference was run on the CPU, raised, and the value "0" is back
C7_Witness ==
    /\ hist.apply = "returned" /\ hist.libCalls = 1
    /\ loc.force_cpu = JBool(TRUE)
    /\ loc.original_cuda = EnvVal("0") /\ cuda = EnvVal("0")
    /\ pc = "print_error" /\ hist.failedStep = "invoke"

\* C8: a volume whose dimension is not 3 or whose first or second axis is 0
\* is rejected with an error envelope and exit code 1 before the external
\* processor is invoked; in feature extraction both for image and mask.
C8_VolumesValidated ==
    /\ hist.libCalls > 0 =>
          /\ IsVolume3D(loc.image)
          /\ method = "pyradiomics" => IsVolume3D(loc.mask_image)
    /\ hist.sawInvalidVolume =>
          /\ hist.libCalls = 0
          /\ (Exited /\ interrupts = 0) => (exitCode = 1 /\ Statuses = {"error"})

\* C9: a run in which a KeyboardInterrupt was delivered while main was
\* executing ends with a JSON envelope of status "error" and exit code 1,
\* never as a success with exit code 0 and never without a JSON object.
C9_InterruptYieldsError ==
    (Exited /\ interrupts > 0) =>
        /\ stdout # <<>>
        /\ Last(stdout).status = "error"
        /\ exitCode = 1

\* the place of each step in the order the specification gives
ClaimedRank(step) ==
    CASE step = "validate"      -> 1
      [] step = "load_params"   -> 2
      [] step = "load_metadata" -> 2
      [] step = "read_image"    -> 3
      [] step = "resolve"       -> 4
      [] step = "invoke"        -> 5
      [] step = "statistics"    -> 6
      [] step = "cleanup"       -> 6
      [] OTHER                  -> 7

\* C10 (as stated): the steps occur in the order validate paths, load JSON
\* inputs (parameters and metadata), read image, resolve parameters, invoke,
\* statistics, package and emit.
C10_ClaimedOrder ==
    \A i, j \in 1..Len(hist.trace) :
        i < j => ClaimedRank(hist.trace[i]) <= ClaimedRank(hist.trace[j])

LmOrder == <<"validate", "load_params", "resolve", "read_image", "invoke",
             "statistics", "load_metadata", "package">>
PrOrder == <<"validate", "load_params", "load_metadata", "resolve", "read_image",
             "invoke", "cleanup", "package">>

IsPrefix(a, b) == Len(a) <= Len(b) /\ \A i \in 1..Len(a) : a[i] = b[i]

\* the step an error message comes from
StepOfMessage(m) ==
    CASE m.about \in {"Input file", "Metadata file", "Parameters file"} -> "validate"
      [] m.about = "parameters file" -> "load_params"
      [] m.about = "metadata file"   -> "load_metadata"
      [] m.about = "Mask file" \/ m.about = "force_cpu"
         \/ m.text \in {"must be a string, got", "Unexpected error:",
                        "Failed to decode mask from base64:", "Mask not provided."}
                                     -> "resolve"
      [] m.text \in {"Failed to read image file", "Image appears to be empty",
                     "Expected 3D image, but got", "does not match mask size"}
                                     -> "read_image"
      [] OTHER                       -> "invoke"

\* C10 (amended): the steps of one invocation occur strictly in one fixed
\* order per method, each after the previous one finished, and the first
\* step that fails is the last one entered and the one whose error the
\* first envelope reports (when that envelope is not the interruption
\* error).  Segmentation: validate paths, load parameters, resolve
\* parameters, read image, invoke, statistics, load metadata, package and
\* emit.  Feature extraction: validate paths, load parameters, load
\* metadata, resolve parameters and mask, read image and mask, invoke,
\* clean up, package and emit.
C10_MethodOrder ==
    /\ IsPrefix(hist.trace, IF method = "lungmask" THEN LmOrder ELSE PrOrder)
    /\ hist.failedStep # "" =>
          /\ hist.failedStep = Last(hist.trace)
          /\ (stdout # <<>> /\ stdout[1] # InterruptEnvelope) =>
                /\ stdout[1].status = "error"
                /\ StepOfMessage(stdout[1].message) = hist.failedStep

\* the image could not be read after the parameters were resolved
C10_Witness ==
    /\ method = "lungmask" /\ Exited /\ exitCode = 1
    /\ hist.trace = <<"validate", "load_params", "resolve", "read_image">>
    /\ hist.failedStep = "read_image"
    /\ Len(stdout) = 1 /\ stdout[1].message.text = "Failed to read image file"

\* the options with a declared type that the parameters file gives a value
\* of another type
Mistyped(params) ==
    IF params.kind # "dict" THEN {}
    ELSE IF method = "lungmask"
    THEN {o \in {"model"} : params[o].t \notin {"absent", "str"}}
    ELSE {o \in {"feature_classes"} : params[o].t \notin {"absent", "str"}}
         \cup {o \in {"bin_width", "normalize_scale"} : params[o].t \notin {"absent", "int"}}

\* C11: a parameters file that gives model, feature_classes, bin_width or
\* normalize_scale a value of another type than the declared one yields an
\* error envelope whose message names the option and the type received,
\* with exit code 1, and the external processor is not invoked.
C11_TypeMismatchFatal ==
    Mistyped(loc.params) # {} =>
        /\ hist.libCalls = 0
        /\ (Exited /\ interrupts = 0 /\ hist.failedStep \notin {"validate", "load_metadata"}) =>
              /\ exitCode = 1
              /\ Len(stdout) = 1
              /\ stdout[1].status = "error"
              /\ stdout[1].message.about \in Mistyped(loc.params)
              /\ stdout[1].message.arg = TypeName(loc.params[stdout[1].message.about])

SuccessEnvelopes == {e \in Envelopes : e.status = "success"}

\* C12: in every success envelope of segmentation the mask has exactly the
\* size of the input image and the image's spacing, origin and direction;
\* a mask the library returned with another size never reaches a success
\* envelope: the run ends with the size-mismatch error and exit code 1.
C12_MaskMatchesImage ==
    method = "lungmask" =>
        /\ \A e \in SuccessEnvelopes :
              /\ e.data.mask_metadata.size = e.metadata.input_image_size
              /\ e.data.mask_metadata.geo = e.metadata.input_image_geo
              /\ e.data.mask_metadata.size = hist.libMaskSize
        /\ (hist.libMaskSize # <<>> /\ hist.libMaskSize # loc.image.size) =>
              /\ SuccessEnvelopes = {}
              /\ Exited => exitCode # 0
              /\ (Exited /\ interrupts = 0) =>
                    /\ stdout = <<ErrorEnvelope(SizeMsg("does not match image size",
                                                        hist.libMaskSize, loc.image.size))>>
                    /\ exitCode = 1

\* a mask returned as an array of shape (2, 1, 1) for an image of size (1, 1, 2)
C12_Witness ==
    /\ method = "lungmask" /\ Exited /\ exitCode = 0
    /\ Len(stdout) = 1 /\ stdout[1].status = "success"
    /\ stdout[1].data.mask_metadata.size = <<1, 1, 2>>
    /\ stdout[1].metadata.input_image_geo = "file"

\* C13: every success envelope of segmentation delivers the mask: data holds
\* a non-null mask_base64 or a mask_file path, whatever the size of the mask
\* and also when the inline encoding was skipped or failed.
C13_MaskDelivered ==
    method = "lungmask" =>
        \A e \in SuccessEnvelopes :
            e.data.mask_base64.present \/ "mask_file" \in e.data.keys

TooLargeWarning == "Warning: Mask too large for base64 encoding"

\* C14: in a segmentation success envelope the mask is inline only if its
\* base64 length is under 50 MiB; when the encoded length is beyond the
\* ceiling the inline mask is left out, the warning is on the error stream,
\* and the run still ends with one success envelope and exit code 0.
C14_InlineUnderCeiling ==
    method = "lungmask" =>
        /\ \A e \in SuccessEnvelopes :
              /\ e.data.mask_base64.present => e.data.mask_base64.len < max_size_bytes
              /\ b64len(e.data.mask_size_bytes) > max_size_bytes =>
                    /\ ~e.data.mask_base64.present
                    /\ TooLargeWarning \in stderr
        /\ (b64len(loc.mask_size_bytes) > max_size_bytes /\ Exited /\ interrupts = 0) =>
              /\ Len(stdout) = 1 /\ stdout[1].status = "success"
              /\ exitCode = 0

\* a mask file of 39321601 bytes, 52428804 characters when encoded
C14_Witness ==
    /\ method = "lungmask" /\ Exited /\ exitCode = 0
    /\ Len(stdout) = 1 /\ stdout[1].status = "success"
    /\ b64len(stdout[1].data.mask_size_bytes) > max_size_bytes
    /\ ~stdout[1].data.mask_base64.present
    /\ TooLargeWarning \in stderr

\* C15: whatever the external library writes to standard output while it is
\* invoked is kept off the standard output of the process, in both methods
\* and for every outcome of the call: standard output carries only the JSON
\* envelope.
C15_LibraryOutputOffStdout ==
    hist.stdoutOther = {}

\* C16: in every success envelope parameters_applied is the parsed content
\* of the parameters file unchanged (defaults and coercions do not alter it),
\* metadata.original_metadata is the parsed content of the metadata file
\* unmodified ({} for a metadata file that could not be parsed), and the
\* top-level keys are exactly status, message, data, metadata,
\* parameters_applied.
C16_InputsEchoed ==
    \A e \in SuccessEnvelopes :
        /\ e.parameters_applied = hist.paramsParsed
        /\ hist.paramsFile = "dict"
        /\ e.metadata.original_metadata =
              IF hist.metadataFile \in {"malformed", "ioerror"}
              THEN EmptyDict ELSE hist.metadataParsed
        /\ e.keys = {"status", "message", "data", "metadata", "parameters_applied"}

\* force_cpu given as "TRUE" and model left out: resolved to true and "R231",
\* echoed as given
C16_Witness ==
    /\ Exited /\ exitCode = 0 /\ Len(stdout) = 1 /\ stdout[1].status = "success"
    /\ method = "lungmask"
    /\ stdout[1].parameters_applied.force_cpu = JStr(s_TRUE)
    /\ stdout[1].parameters_applied.model = Absent
    /\ stdout[1].metadata.force_cpu = JBool(TRUE)
    /\ stdout[1].metadata.model = JStr(s_R231)
    /\ stdout[1].metadata.original_metadata = Doc("list")

\* the metadata is a mapping that refers to no existing mask file
NoMaskReference ==
    /\ loc.metadata.kind = "dict"
    /\ \/ metadata_mask(loc.metadata) \in {"", "list"}
       \/ metadata_mask(loc.metadata) = "path" /\ fs.mask = "missing"

\* C17: in feature extraction, when mask_base64 is omitted or empty and the
\* metadata holds no reference to an existing mask file, the run ends with
\* the error "Mask not provided", exit code 1, and the extractor is never
\* invoked.
C17_MaskNotProvided ==
    (/\ method = "pyradiomics"
     /\ loc.params.kind = "dict"
     /\ loc.params.mask_base64 \in {Absent, JStr(<<>>)}
     /\ loc.params.feature_classes.t \in {"absent", "str"}
     /\ NoMaskReference) =>
        /\ hist.libCalls = 0
        /\ (Exited /\ interrupts = 0) =>
              /\ stdout = <<ErrorEnvelope(Msg("Mask not provided.", "", ""))>>
              /\ exitCode = 1

\* C18: in feature extraction the extractor is invoked only when the sizes
\* of the image and of the mask are exactly equal; when the two volumes that
\* were read differ in size the run ends with the error envelope citing both
\* sizes and exit code 1.
C18_SizesMustMatch ==
    method = "pyradiomics" =>
        /\ hist.libCalls > 0 => loc.image.size = loc.mask_image.size
        /\ (loc.mask_image.ok /\ loc.image.size # loc.mask_image.size) =>
              /\ hist.libCalls = 0
              /\ Exited => exitCode # 0
              /\ (Exited /\ interrupts = 0) =>
                    /\ stdout = <<ErrorEnvelope(SizeMsg("does not match mask size",
                                                        loc.image.size, loc.mask_image.size))>>
                    /\ exitCode = 1

\* image of size (1, 1, 2), mask of size (1, 1, 1)
C18_Witness ==
    /\ method = "pyradiomics" /\ Exited /\ exitCode = 1
    /\ loc.image.size = <<1, 1, 2>> /\ loc.mask_image.size = <<1, 1, 1>>
    /\ Len(stdout) = 1
    /\ stdout[1].message.sizes = <<<<1, 1, 2>>, <<1, 1, 1>>>>

IsDiagnostic(name) == startswith(name, s_diagnostics)

\* where a feature name occurs in the class mappings of a result
Places(r, name) ==
    {<<c, j>> \in (1..Len(r.features)) \X (1..MaxFeatures + 1) :
        j <= Len(r.features[c].value) /\ r.features[c].value[j].key = name}

RECURSIVE SumSizes(_, _)
SumSizes(d, i) == IF i > Len(d) THEN 0 ELSE Len(d[i].value) + SumSizes(d, i + 1)

\* C20: the result of extract_radiomics_features partitions the features
\* that are not diagnostic: no key starting with "diagnostics" is in features
\* or in all_features; every other feature name is in exactly one class
\* mapping and once in all_features, and nothing else is; feature_count is
\* the number of entries of all_features and the sum of the sizes of the
\* class mappings; feature_classes is the list of the keys of features.
C20_FeaturesPartitioned ==
    ~loc.features_result.none =>
        LET f == loc.lib_features
            r == loc.features_result
            names == {f[i].key : i \in 1..Len(f)}
            kept == {n \in names : ~IsDiagnostic(n)}
            flat == {r.all_features[j].key : j \in 1..Len(r.all_features)}
        IN
        /\ flat = kept
        /\ Len(r.all_features) = Cardinality(kept)
        /\ \A n \in kept : Cardinality(Places(r, n)) = 1
        /\ \A c \in 1..Len(r.features) : \A j \in 1..Len(r.features[c].value) :
              r.features[c].value[j].key \in kept
        /\ \A c, d \in 1..Len(r.features) : c # d => r.features[c].key # r.features[d].key
        /\ r.feature_count = Len(r.all_features)
        /\ r.feature_count = SumSizes(r.features, 1)
        /\ r.feature_classes = Keys(r.features)

\* a diagnostic entry between two features of the class glcm
C20_Witness ==
    /\ pc = "organized"
    /\ Keys(loc.lib_features) = <<f_orig_a, f_diag, f_orig_b>>
    /\ loc.features_result.feature_count = 2
    /\ loc.features_result.feature_classes = <<<<"g","l","c","m">>>>
    /\ Keys(loc.features_result.all_features) = <<f_orig_a, f_orig_b>>

\* C21: in feature extraction without mask_base64, when the file-reference
\* map of the metadata gives 'mask' as a non-empty list of paths, the first
\* element is used as the mask path and processing continues with it; when
\* it gives a single path, that path is used.
C21_MaskFromFileReference ==
    (/\ method = "pyradiomics"
     /\ loc.params.kind = "dict"
     /\ loc.params.mask_base64 \in {Absent, JStr(<<>>)}
     /\ loc.params.feature_classes.t \in {"absent", "str"}
     /\ loc.metadata.kind = "dict"
     /\ \/ metadata_mask(loc.metadata) = "list_existing"
        \/ metadata_mask(loc.metadata) = "path" /\ fs.mask = "ok"
     /\ Exited /\ interrupts = 0) =>
        /\ hist.failedStep # "resolve"
        /\ loc.mask_path \in {"mask_file", "mask_ref_tmp"}
        /\ hist.imageReads > 0

\* C22: for every multi-slice volume, generate_mask returns a segmentation
\* binarized to {0,1} and a masked image that, at every slice index from 0
\* to depth-1 (the first slice included), equals the values of the image
\* where the segmentation is 1 and 0 elsewhere.
C22_EverySliceMasked ==
    (pc = "generated" /\ GetSize(loc.img)[3] > 1) =>
        LET g == loc.generated
            arr == GetArrayFromImage(loc.img)
        IN  /\ g.raised = ""
            /\ \A i \in 1..Len(arr) : \A r \in 1..Len(arr[i]) :
                  \A c \in 1..Len(arr[i][r]) :
                    /\ g.segmentation[i][r][c] \in {0, 1}
                    /\ (g.segmentation[i][r][c] = 1) = (loc.lib_segmentation[i][r][c] > 0)
                    /\ g.masked_img[i][r][c] =
                          IF g.segmentation[i][r][c] = 1 THEN arr[i][r][c] ELSE 0

====
